---- MODULE Spec2Model ----
(***************************************************************************)
(* Model of run/testFramework.py: the benchmark sweep driver.  The driver  *)
(* enumerates (query_size, ds_type, op), rewrites config.properties,       *)
(* spawns the worker JAR, scrapes its standard output and appends one      *)
(* record per combination to `results`, which is dumped to output.json at  *)
(* the end.                                                                *)
(*                                                                         *)
(* Text (file contents, lines, process output) is a sequence of            *)
(* one-character strings, so that strip/startswith/re.search/int and the   *)
(* f-string formatting are modelled by what they do to the characters.     *)
(***************************************************************************)
EXTENDS Integers, Sequences, FiniteSets, TLC

\* ------------------------------------------------------------------------
\* Program constants (testFramework.py:11-17)
\* ------------------------------------------------------------------------
QueryStart == 1000000

QueryStop == 2100000

QueryStep == 100000

\* variant: the stop value is 2000000, so the last size is lost
query_sizes_Short ==
    [i \in 1..((QueryStop - QueryStep - QueryStart + QueryStep - 1) \div QueryStep)
        |-> QueryStart + (i - 1) * QueryStep]

\* range(1000000, 2100000, 100000): start, start+step, ... while < stop
query_sizes ==
    [i \in 1..((QueryStop - QueryStart + QueryStep - 1) \div QueryStep)
        |-> QueryStart + (i - 1) * QueryStep]

operations == <<"insert", "search", "delete">>

\* The dict literal, in insertion order (dict.items() iterates in that order).
data_structures ==
    << [name |-> "ConcurrentSkipList", ops |-> <<"insert", "search", "delete">>],
       [name |-> "BloomFiler",         ops |-> <<"insert", "search", "delete">>],
       [name |-> "CuckooFiler",        ops |-> <<"insert", "search", "delete">>] >>

\* ------------------------------------------------------------------------
\* Characters of the string literals the program uses
\* ------------------------------------------------------------------------
Chars(s) ==
    CASE s = "operation" -> <<"o", "p", "e", "r", "a", "t", "i", "o", "n">>
      [] s = "querySize" -> <<"q", "u", "e", "r", "y", "S", "i", "z", "e">>
      [] s = "datastructures.type" ->
             <<"d", "a", "t", "a", "s", "t", "r", "u", "c", "t", "u", "r", "e", "s",
               ".", "t", "y", "p", "e">>
      [] s = " = " -> <<" ", "=", " ">>
      [] s = "insert" -> <<"i", "n", "s", "e", "r", "t">>
      [] s = "search" -> <<"s", "e", "a", "r", "c", "h">>
      [] s = "delete" -> <<"d", "e", "l", "e", "t", "e">>
      [] s = "ConcurrentSkipList" ->
             <<"C", "o", "n", "c", "u", "r", "r", "e", "n", "t", "S", "k", "i", "p",
               "L", "i", "s", "t">>
      [] s = "BloomFiler" -> <<"B", "l", "o", "o", "m", "F", "i", "l", "e", "r">>
      [] s = "CuckooFiler" -> <<"C", "u", "c", "k", "o", "o", "F", "i", "l", "e", "r">>
      [] s = "Execution time: " ->
             <<"E", "x", "e", "c", "u", "t", "i", "o", "n", " ", "t", "i", "m", "e",
               ":", " ">>
      [] s = " ms" -> <<" ", "m", "s">>
      [] s = "Memory used: " ->
             <<"M", "e", "m", "o", "r", "y", " ", "u", "s", "e", "d", ":", " ">>
      [] s = " MB" -> <<" ", "M", "B">>
      [] s = "\n" -> <<"\n">>

Digits == <<"0", "1", "2", "3", "4", "5", "6", "7", "8", "9">>

\* \d of the regular expressions (ASCII digits; the alphabet has no others)
IsDigit(c) == \E i \in 1..Len(Digits) : Digits[i] = c

DigitValue(c) == (CHOOSE i \in 1..Len(Digits) : Digits[i] = c) - 1

\* f'{query_size}': decimal digits of a non-negative int
RECURSIVE FormatInt(_)
FormatInt(n) ==
    IF n < Len(Digits)
    THEN <<Digits[n + 1]>>
    ELSE Append(FormatInt(n \div Len(Digits)), Digits[(n % Len(Digits)) + 1])

\* int(match.group(1)) on a run of digits
RECURSIVE ParseInt(_)
ParseInt(ds) ==
    IF ds = <<>>
    THEN 0
    ELSE ParseInt(SubSeq(ds, 1, Len(ds) - 1)) * Len(Digits) + DigitValue(ds[Len(ds)])

\* ------------------------------------------------------------------------
\* str.strip / str.startswith / file.readlines
\* ------------------------------------------------------------------------
Whitespace == {" ", "\t", "\n"}

RECURSIVE LStrip(_)
LStrip(s) ==
    IF s # <<>> /\ s[1] \in Whitespace THEN LStrip(Tail(s)) ELSE s

RECURSIVE RStrip(_)
RStrip(s) ==
    IF s # <<>> /\ s[Len(s)] \in Whitespace
    THEN RStrip(SubSeq(s, 1, Len(s) - 1))
    ELSE s

Strip(s) == RStrip(LStrip(s))

StartsWith(s, p) == Len(s) >= Len(p) /\ SubSeq(s, 1, Len(p)) = p

\* readlines(): the file cut after every "\n"; each line keeps its terminator,
\* the last line has none when the file does not end with "\n".
ReadLines(f) ==
    LET ends     == {i \in 1..Len(f) : f[i] = "\n" \/ i = Len(f)}
        EndOf(k) == CHOOSE e \in ends : Cardinality({x \in ends : x <= e}) = k
    IN  [k \in 1..Cardinality(ends) |->
            SubSeq(f, IF k = 1 THEN 1 ELSE EndOf(k - 1) + 1, EndOf(k))]

\* what the successive file.write calls leave in the file: lines k, k+1, ...
RECURSIVE WriteFrom(_, _)
WriteFrom(ls, k) == IF k > Len(ls) THEN <<>> ELSE ls[k] \o WriteFrom(ls, k + 1)

WriteAll(ls) == WriteFrom(ls, 1)

\* ------------------------------------------------------------------------
\* Configuration rewrite (testFramework.py:33-47)
\* ------------------------------------------------------------------------
\* variant: the replacement line is written without its line terminator
KeyLine_NoNewline(key, value) == Chars(key) \o Chars(" = ") \o value

KeyLine(key, value) == Chars(key) \o Chars(" = ") \o value \o Chars("\n")

\* the if/elif/else chain applied to one line
RewriteLine(line, op, query_size, ds_type) ==
    IF StartsWith(Strip(line), Chars("operation"))
    THEN KeyLine("operation", Chars(op))
    ELSE IF StartsWith(Strip(line), Chars("querySize"))
    THEN KeyLine("querySize", FormatInt(query_size))
    ELSE IF StartsWith(Strip(line), Chars("datastructures.type"))
    THEN KeyLine("datastructures.type", Chars(ds_type))
    ELSE line

\* read all lines, then write the file back line by line
RewriteConfig(file, op, query_size, ds_type) ==
    LET lines == ReadLines(file)
    IN  WriteAll([i \in 1..Len(lines) |-> RewriteLine(lines[i], op, query_size, ds_type)])

\* ------------------------------------------------------------------------
\* Output scraping (testFramework.py:65-74)
\* ------------------------------------------------------------------------
\* Python's None; a captured integer n is <<n>>
None == <<>>

Some(n) == <<n>>

\* end (exclusive) of the maximal run of digits of text that starts at j
RECURSIVE DigitsEnd(_, _)
DigitsEnd(text, j) ==
    IF j <= Len(text) /\ IsDigit(text[j]) THEN DigitsEnd(text, j + 1) ELSE j

\* the pattern  pre (\d+) suf  matches text at position i.  \d+ is greedy and
\* suf starts with a non-digit, so only the maximal run of digits can match.
MatchesAt(text, i, pre, suf) ==
    /\ i + Len(pre) - 1 <= Len(text)
    /\ SubSeq(text, i, i + Len(pre) - 1) = pre
    /\ LET j == i + Len(pre)
           k == DigitsEnd(text, j)
       IN  /\ k > j
           /\ k + Len(suf) - 1 <= Len(text)
           /\ SubSeq(text, k, k + Len(suf) - 1) = suf

\* variant: the last match is taken instead of the first
SearchInt_Last(text, pre, suf) ==
    LET hits == {i \in 1..Len(text) : MatchesAt(text, i, pre, suf)}
    IN  IF hits = {}
        THEN None
        ELSE LET i == CHOOSE h \in hits : \A g \in hits : h >= g
                 j == i + Len(pre)
             IN  Some(ParseInt(SubSeq(text, j, DigitsEnd(text, j) - 1)))

\* re.search(pattern, text) followed by int(match.group(1)); None if no match
SearchInt(text, pre, suf) ==
    LET hits == {i \in 1..Len(text) : MatchesAt(text, i, pre, suf)}
    IN  IF hits = {}
        THEN None
        ELSE LET i == CHOOSE h \in hits : \A g \in hits : h <= g
                 j == i + Len(pre)
             IN  Some(ParseInt(SubSeq(text, j, DigitsEnd(text, j) - 1)))

\* variant: the memory figure is looked for only when the time was found
ScrapeMemory_Nested(streams) ==
    IF streams.stdout # <<>>
       /\ SearchInt(streams.stdout, Chars("Execution time: "), Chars(" ms")) # <<>>
    THEN SearchInt(streams.stdout, Chars("Memory used: "), Chars(" MB"))
    ELSE <<>>

\* `streams` is what communicate() returned: [stdout, stderr].  `if stdout:`
\* guards both searches; stderr is never looked at.
ScrapeTime(streams) ==
    IF streams.stdout # <<>>
    THEN SearchInt(streams.stdout, Chars("Execution time: "), Chars(" ms"))
    ELSE None

ScrapeMemory(streams) ==
    IF streams.stdout # <<>>
    THEN SearchInt(streams.stdout, Chars("Memory used: "), Chars(" MB"))
    ELSE None

\* ------------------------------------------------------------------------
\* Bounds of the model
\* ------------------------------------------------------------------------
\* The worker and the host are outside the program.  Their behaviour is drawn
\* freely for a run of MaxVaried consecutive invocations that starts anywhere
\* in the sweep, and is the nominal one for the other invocations.
MaxVaried == 1

\* ------------------------------------------------------------------------
\* The environment: worker process and psutil
\* ------------------------------------------------------------------------
NominalStdout ==
    Chars("Execution time: ") \o <<"1", "2", "3", "4">> \o Chars(" ms") \o Chars("\n")
    \o Chars("Memory used: ") \o <<"5", "6">> \o Chars(" MB") \o Chars("\n")

\* a worker that died before printing anything; its trace goes to stderr
CrashStderr ==
    Chars("Execution time: ") \o <<"9">> \o Chars(" ms") \o Chars("\n")
    \o Chars("Memory used: ") \o <<"9">> \o Chars(" MB") \o Chars("\n")

TimeOnlyStdout ==
    <<"o", "k", "\n">> \o Chars("Execution time: ") \o <<"0", "7">> \o Chars(" ms")

MemoryOnlyStdout ==
    Chars("Execution time: ") \o Chars(" ms") \o Chars("\n")
    \o Chars("Memory used: ") \o <<"8">> \o Chars(" MB") \o Chars("\n")

NominalOutcome ==
    [stdout |-> NominalStdout, stderr |-> <<>>, returncode |-> 0]

\* what a worker can leave behind when it exits: the text of its two streams
\* and its exit code
WorkerOutcomes ==
    { NominalOutcome,
      [stdout |-> <<>>, stderr |-> CrashStderr, returncode |-> 1],
      [stdout |-> TimeOnlyStdout, stderr |-> <<>>, returncode |-> 0],
      [stdout |-> MemoryOnlyStdout, stderr |-> <<>>, returncode |-> 1] }

\* psutil.cpu_percent(interval=1) in tenths of a percent (psutil rounds to one
\* decimal).  The host load is steady during a sweep: every sample is 25.0.
NominalCpu == 250

\* (cpu_usage_before + cpu_usage_after) / 2, in twentieths of a percent so
\* that the halves are exact
AverageCpu(before, after) == before + after

\* ------------------------------------------------------------------------
\* Files
\* ------------------------------------------------------------------------
Line(key, value) == Chars(key) \o Chars(" = ") \o value \o Chars("\n")

CommentLine == <<"#", " ", "r", "u", "n", "\n">>

\* config.properties as the repository ships it: one line per key
PlainConfig ==
    CommentLine
    \o Line("operation", Chars("search"))
    \o Line("querySize", FormatInt(5))
    \o Line("datastructures.type", Chars("CuckooFiler"))

\* a configuration with no line for querySize and no final newline
PartialConfig ==
    Line("datastructures.type", Chars("BloomFiler"))
    \o <<"\n">>
    \o <<" ">> \o Chars("operation") \o <<"=", "x">>

ConfigFiles == {PlainConfig, PartialConfig}

\* json.dumps of a value: None is null, a str is quoted, an int is its
\* decimal digits
JsonNull == <<"n", "u", "l", "l">>

JsonStr(s) == <<"\"">> \o Chars(s) \o <<"\"">>

JsonInt(v) == IF v = None THEN JsonNull ELSE FormatInt(v[1])

\* repr of the float average (exact for samples that are whole percents: the
\* fraction is .0 or .5)
JsonFloat(twentieths) ==
    LET hundredths == (twentieths % 20) * 5
    IN  FormatInt(twentieths \div 20) \o <<".">>
        \o <<Digits[(hundredths \div 10) + 1]>>
        \o (IF hundredths % 10 = 0 THEN <<>> ELSE <<Digits[(hundredths % 10) + 1]>>)

\* json.dumps of one record: an object whose members keep the order in which
\* the dict literal lists its keys
DumpsRecord(r) ==
    << <<"querySize", JsonInt(Some(r.querySize))>>,
       <<"operation", JsonStr(r.operation)>>,
       <<"datastructures_type", JsonStr(r.datastructures_type)>>,
       <<"execution_time_ms", JsonInt(r.execution_time_ms)>>,
       <<"memory_used_mb", JsonInt(r.memory_used_mb)>>,
       <<"cpu_usage_percent", JsonFloat(r.cpu_usage_percent)>> >>

\* json.dumps of the list: an array of the objects, in list order
Dumps(rs) == [i \in 1..Len(rs) |-> DumpsRecord(rs[i])]

\* output.json left over from an earlier run
StaleOutput ==
    Dumps(<< [querySize |-> QueryStart, operation |-> "insert",
              datastructures_type |-> "ConcurrentSkipList",
              execution_time_ms |-> None, memory_used_mb |-> None,
              cpu_usage_percent |-> 0] >>)

\* ------------------------------------------------------------------------
\* State
\* ------------------------------------------------------------------------
VARIABLES
    pc,               \* where the script is: loop, configured, waiting, done, halted
    pos,              \* the three loop indices [q, d, o] (1-based)
    results,          \* the list `results`
    configFile,       \* contents of config.properties
    outputFile,       \* contents of output.json
    cpu_usage_before, \* the sample taken before Popen
    live,             \* spawned worker processes that have not exited (by number)
    hung,             \* live workers that will never exit
    proc,             \* what communicate() will return for the last worker
    workerSaw,        \* config.properties as the last worker read it
    fault,            \* the exception that ended the script, if any
    rewrites,         \* history: sweep points whose rewrite was done
    invocations,      \* history: sweep points whose Popen was done
    outputWrites,     \* history: number of times output.json was opened for writing
    variedFrom,       \* the invocations after this one are the varied ones
    probe             \* harness of the function-level specifications

vars ==
    <<pc, pos, results, configFile, outputFile, cpu_usage_before, live, hung, proc,
      workerSaw, fault, rewrites, invocations, outputWrites, variedFrom, probe>>

sweepVars ==
    <<pc, pos, results, configFile, outputFile, cpu_usage_before, live, hung, proc,
      workerSaw, fault, rewrites, invocations, outputWrites, variedFrom>>

\* ------------------------------------------------------------------------
\* The nested loop (testFramework.py:27-32)
\* ------------------------------------------------------------------------
FirstPos == [q |-> 1, d |-> 1, o |-> 1]

Exhausted(p) == p.q > Len(query_sizes)

QuerySizeAt(p) == query_sizes[p.q]

DsTypeAt(p) == data_structures[p.d].name

OpAt(p) == data_structures[p.d].ops[p.o]

SweepPoint(p) ==
    [querySize |-> QuerySizeAt(p), operation |-> OpAt(p), datastructures_type |-> DsTypeAt(p)]

\* variant: the loop over the operations encloses the loop over the structures
Advance_OperationsOuter(p) ==
    IF p.d < Len(data_structures)
    THEN [p EXCEPT !.d = p.d + 1]
    ELSE IF p.o < Len(data_structures[p.d].ops)
    THEN [q |-> p.q, d |-> 1, o |-> p.o + 1]
    ELSE [q |-> p.q + 1, d |-> 1, o |-> 1]

\* the next iteration of the innermost loop that has one
Advance(p) ==
    IF p.o < Len(data_structures[p.d].ops)
    THEN [p EXCEPT !.o = p.o + 1]
    ELSE IF p.d < Len(data_structures)
    THEN [q |-> p.q, d |-> p.d + 1, o |-> 1]
    ELSE [q |-> p.q + 1, d |-> 1, o |-> 1]

\* variant: the test names the structure "BloomFilter", which the dict never holds
Skipped_OtherName(p) == DsTypeAt(p) = "BloomFilter" /\ OpAt(p) = "delete"

\* `if ds_type == 'BloomFiler' and op == 'delete': continue`
Skipped(p) == DsTypeAt(p) = "BloomFiler" /\ OpAt(p) = "delete"

\* number of iterations of the innermost loop body, skipped ones included
RECURSIVE SumOps(_)
SumOps(d) == IF d = 0 THEN 0 ELSE Len(data_structures[d].ops) + SumOps(d - 1)

TotalIterations == Len(query_sizes) * SumOps(Len(data_structures))

\* ------------------------------------------------------------------------
\* Environment choices
\* ------------------------------------------------------------------------
Varied(n) == variedFrom < n /\ n <= variedFrom + MaxVaried

OutcomeChoice(n) == IF Varied(n) THEN WorkerOutcomes ELSE {NominalOutcome}

\* get_cpu_usage() (testFramework.py:20-21)
get_cpu_usage == NominalCpu

NotRead == [read |-> FALSE, text |-> <<>>]

NoProc == [stdout |-> <<>>, stderr |-> <<>>, returncode |-> None]

Idle == [mode |-> "idle"]

\* ------------------------------------------------------------------------
\* Init: the script starts with an empty list, before the first iteration
\* ------------------------------------------------------------------------
SweepInit ==
    /\ pc = "loop"
    /\ pos = FirstPos
    /\ results = <<>>
    /\ configFile \in ConfigFiles
    /\ outputFile = StaleOutput
    /\ cpu_usage_before = 0
    /\ live = {}
    /\ hung = {}
    /\ proc = NoProc
    /\ workerSaw = NotRead
    /\ fault = "none"
    /\ rewrites = <<>>
    /\ invocations = <<>>
    /\ outputWrites = 0
    /\ variedFrom \in 0..(TotalIterations - 1)
    \* the varied run is placed freely for the shipped configuration, and at
    \* the start of the sweep for the other one
    /\ configFile # PlainConfig => variedFrom = 0

Init == SweepInit /\ probe = Idle

\* ------------------------------------------------------------------------
\* Actions of the script
\* ------------------------------------------------------------------------
Halt(why) ==
    /\ pc' = "halted"
    /\ fault' = why

\* lines 29-32: the skipped combination goes straight to the next iteration
Skip ==
    /\ pc = "loop"
    /\ ~Exhausted(pos)
    /\ Skipped(pos)
    /\ pos' = Advance(pos)
    /\ UNCHANGED <<pc, results, configFile, outputFile, cpu_usage_before, live, hung,
                   proc, workerSaw, fault, rewrites, invocations, outputWrites,
                   variedFrom, probe>>

\* lines 33-47: read config.properties and write it back with the new settings
Rewrite ==
    /\ pc = "loop"
    /\ ~Exhausted(pos)
    /\ ~Skipped(pos)
    /\ configFile' = RewriteConfig(configFile, OpAt(pos), QuerySizeAt(pos), DsTypeAt(pos))
    /\ rewrites' = Append(rewrites, SweepPoint(pos))
    /\ pc' = "configured"
    /\ UNCHANGED <<pos, results, outputFile, cpu_usage_before, live, hung, proc,
                   workerSaw, fault, invocations, outputWrites, variedFrom, probe>>

\* lines 34/38: open() raises (file missing, unreadable, unwritable); the file
\* is left as it was
ConfigFault ==
    /\ pc = "loop"
    /\ ~Exhausted(pos)
    /\ ~Skipped(pos)
    /\ \E why \in {"config_read", "config_write"} : Halt(why)
    /\ UNCHANGED <<pos, results, configFile, outputFile, cpu_usage_before, live, hung,
                   proc, workerSaw, rewrites, invocations, outputWrites, variedFrom,
                   probe>>

\* lines 50-54: sample the CPU, then Popen
Spawn ==
    /\ pc = "configured"
    /\ LET n == Len(invocations) + 1
       IN  live' = live \cup {n}
    /\ cpu_usage_before' = get_cpu_usage
    /\ invocations' = Append(invocations, SweepPoint(pos))
    /\ proc' = NoProc
    /\ workerSaw' = NotRead
    /\ pc' = "waiting"
    /\ UNCHANGED <<pos, results, configFile, outputFile, hung, fault, rewrites,
                   outputWrites, variedFrom, probe>>

\* line 53: Popen raises OSError (no java on the PATH, no more processes)
SpawnFault ==
    /\ pc = "configured"
    /\ Halt("spawn")
    /\ UNCHANGED <<pos, results, configFile, outputFile, cpu_usage_before, live, hung,
                   proc, workerSaw, rewrites, invocations, outputWrites, variedFrom,
                   probe>>

\* variant: the output is collected without waiting for the worker to exit
Collect_NoWait ==
    /\ pc = "waiting"
    /\ LET cpu_usage_after == get_cpu_usage
       IN  results' = Append(results,
              [querySize |-> QuerySizeAt(pos),
               operation |-> OpAt(pos),
               datastructures_type |-> DsTypeAt(pos),
               execution_time_ms |-> ScrapeTime(proc),
               memory_used_mb |-> ScrapeMemory(proc),
               cpu_usage_percent |-> AverageCpu(cpu_usage_before, cpu_usage_after)])
    /\ pos' = Advance(pos)
    /\ pc' = "loop"
    /\ UNCHANGED <<configFile, outputFile, cpu_usage_before, live, hung, proc,
                   workerSaw, fault, rewrites, invocations, outputWrites, variedFrom,
                   probe>>

\* variant: output.json is rewritten after every record
Collect_Dumping ==
    /\ pc = "waiting"
    /\ Len(invocations) \notin live
    /\ LET cpu_usage_after == get_cpu_usage
       IN  results' = Append(results,
              [querySize |-> QuerySizeAt(pos),
               operation |-> OpAt(pos),
               datastructures_type |-> DsTypeAt(pos),
               execution_time_ms |-> ScrapeTime(proc),
               memory_used_mb |-> ScrapeMemory(proc),
               cpu_usage_percent |-> AverageCpu(cpu_usage_before, cpu_usage_after)])
    /\ outputFile' = Dumps(results')
    /\ outputWrites' = outputWrites + 1
    /\ pos' = Advance(pos)
    /\ pc' = "loop"
    /\ UNCHANGED <<configFile, cpu_usage_before, live, hung, proc, workerSaw, fault,
                   rewrites, invocations, variedFrom, probe>>

\* lines 57-84: communicate() returns once the worker has exited; sample the
\* CPU again, scrape stdout, append the record; the loop goes on
Collect ==
    /\ pc = "waiting"
    /\ Len(invocations) \notin live
    /\ LET cpu_usage_after == get_cpu_usage
       IN  results' = Append(results,
              [querySize |-> QuerySizeAt(pos),
               operation |-> OpAt(pos),
               datastructures_type |-> DsTypeAt(pos),
               execution_time_ms |-> ScrapeTime(proc),
               memory_used_mb |-> ScrapeMemory(proc),
               cpu_usage_percent |-> AverageCpu(cpu_usage_before, cpu_usage_after)])
    /\ pos' = Advance(pos)
    /\ pc' = "loop"
    /\ UNCHANGED <<configFile, outputFile, cpu_usage_before, live, hung, proc,
                   workerSaw, fault, rewrites, invocations, outputWrites, variedFrom,
                   probe>>

\* lines 86-89: after the loops, dump the list and write output.json
WriteReport ==
    /\ pc = "loop"
    /\ Exhausted(pos)
    /\ outputFile' = Dumps(results)
    /\ outputWrites' = outputWrites + 1
    /\ pc' = "done"
    /\ UNCHANGED <<pos, results, configFile, cpu_usage_before, live, hung, proc,
                   workerSaw, fault, rewrites, invocations, variedFrom, probe>>

\* line 88: open() raises and output.json is left as it was, or line 89:
\* write() raises after open() has truncated the file
OutputFault ==
    /\ pc = "loop"
    /\ Exhausted(pos)
    /\ \/ /\ Halt("output_open")
          /\ UNCHANGED <<outputFile, outputWrites>>
       \/ /\ Halt("output_write")
          /\ outputFile' = <<>>
          /\ outputWrites' = outputWrites + 1
    /\ UNCHANGED <<pos, results, configFile, cpu_usage_before, live, hung, proc,
                   workerSaw, rewrites, invocations, variedFrom, probe>>

\* ------------------------------------------------------------------------
\* Actions of the worker process (the JAR; outside the program)
\* ------------------------------------------------------------------------
\* the worker loads the file named by -Dproperties.path at some point of its life
WorkerReadsConfig ==
    /\ \E n \in live \ hung : TRUE
    /\ ~workerSaw.read
    /\ workerSaw' = [read |-> TRUE, text |-> configFile]
    /\ UNCHANGED <<pc, pos, results, configFile, outputFile, cpu_usage_before, live,
                   hung, proc, fault, rewrites, invocations, outputWrites, variedFrom,
                   probe>>

\* the worker exits (normally or not), leaving its output in the pipes
WorkerExit ==
    /\ \E n \in live \ hung :
          /\ live' = live \ {n}
          /\ \E o \in OutcomeChoice(n) :
                proc' = [o EXCEPT !.returncode = Some(o.returncode)]
    /\ UNCHANGED <<pc, pos, results, configFile, outputFile, cpu_usage_before, hung,
                   workerSaw, fault, rewrites, invocations, outputWrites, variedFrom,
                   probe>>

\* the worker hangs: it stays alive and never exits
WorkerHang ==
    /\ \E n \in live \ hung : hung' = hung \cup {n}
    /\ UNCHANGED <<pc, pos, results, configFile, outputFile, cpu_usage_before, live,
                   proc, workerSaw, fault, rewrites, invocations, outputWrites,
                   variedFrom, probe>>

Next ==
    \/ Skip
    \/ Rewrite
    \/ ConfigFault
    \/ Spawn
    \/ SpawnFault
    \/ Collect
    \/ WriteReport
    \/ OutputFault
    \/ WorkerReadsConfig
    \/ WorkerExit
    \/ WorkerHang

Spec == Init /\ [][Next]_vars

\* The interpreter runs the script on, and a worker that does not hang exits.
Fairness ==
    /\ WF_vars(Skip)
    /\ WF_vars(Rewrite)
    /\ WF_vars(Spawn)
    /\ WF_vars(Collect)
    /\ WF_vars(WriteReport)
    /\ WF_vars(WorkerExit)

\* one placement of the varied run is enough to see a sweep end or stall
FairInit == Init /\ variedFrom = 0 /\ configFile = PlainConfig

FairSpec == FairInit /\ [][Next]_vars /\ Fairness

\* ------------------------------------------------------------------------
\* The configuration rewrite on its own: lines 33-47 applied to any file
\* ------------------------------------------------------------------------
\* number of lines an input file is put together from
MaxLines == 2

\* number of times the rewrite is applied to one file
MaxApplications == 2

InputLines ==
    { Line("operation", Chars("search")),
      <<" ", " ">> \o Chars("operation") \o <<"=", "x", "\n">>,
      Chars("operation") \o <<"T", "i", "m", "e", "o", "u", "t">> \o Chars(" = ")
          \o <<"5", "\n">>,
      Line("querySize", FormatInt(5)),
      Chars("querySize"),
      Line("datastructures.type", Chars("CuckooFiler")),
      <<"#", " ">> \o Line("operation", Chars("insert")),
      <<"\n">>,
      <<"x", " ", "=", " ", "1">> }

RECURSIVE InputFiles(_)
InputFiles(n) ==
    IF n = 0
    THEN {<<>>}
    ELSE LET shorter == InputFiles(n - 1)
         IN  shorter \cup {f \o l : f \in shorter, l \in InputLines}

DsNames == {data_structures[d].name : d \in 1..Len(data_structures)}

SweepOff ==
    /\ pc = "off"
    /\ pos = FirstPos
    /\ results = <<>>
    /\ outputFile = StaleOutput
    /\ cpu_usage_before = 0
    /\ live = {}
    /\ hung = {}
    /\ workerSaw = NotRead
    /\ fault = "none"
    /\ rewrites = <<>>
    /\ invocations = <<>>
    /\ outputWrites = 0
    /\ variedFrom = 0

RewriteInit ==
    /\ SweepOff
    /\ proc = NoProc
    /\ configFile \in InputFiles(MaxLines)
    /\ \E op \in {operations[i] : i \in 1..Len(operations)},
          query_size \in {query_sizes[1], query_sizes[Len(query_sizes)]},
          ds_type \in DsNames :
          probe = [mode |-> "rewrite", op |-> op, query_size |-> query_size,
                   ds_type |-> ds_type, original |-> configFile,
                   previous |-> configFile, applied |-> 0]

\* one execution of lines 33-47 with the probe's settings
ApplyRewrite ==
    /\ probe.mode = "rewrite"
    /\ probe.applied < MaxApplications
    /\ configFile' = RewriteConfig(configFile, probe.op, probe.query_size, probe.ds_type)
    /\ probe' = [probe EXCEPT !.applied = probe.applied + 1, !.previous = configFile]
    /\ UNCHANGED <<pc, pos, results, outputFile, cpu_usage_before, live, hung, proc,
                   workerSaw, fault, rewrites, invocations, outputWrites, variedFrom>>

SpecRewrite == RewriteInit /\ [][ApplyRewrite]_vars

\* ------------------------------------------------------------------------
\* The output scraping on its own: lines 65-74 applied to any captured text
\* ------------------------------------------------------------------------
\* number of pieces a captured standard output is put together from
MaxPieces == 3

OutputPieces ==
    { Chars("Execution time: ") \o <<"1", "2">> \o Chars(" ms"),
      Chars("Execution time: ") \o <<"0", "0", "7">> \o Chars(" ms") \o Chars("\n"),
      Chars("Memory used: ") \o <<"5", "6">> \o Chars(" MB") \o Chars("\n"),
      Chars("Memory used: ") \o <<"8">> \o Chars(" MB"),
      Chars("Execution time: "),
      Chars("Memory used: "),
      <<"3", "4">>,
      Chars(" ms"),
      Chars(" MB"),
      <<"-">>,
      Chars("\n") }

RECURSIVE OutputTexts(_)
OutputTexts(n) ==
    IF n = 0
    THEN {<<>>}
    ELSE LET shorter == OutputTexts(n - 1)
         IN  shorter \cup {t \o piece : t \in shorter, piece \in OutputPieces}

ScrapeInit ==
    /\ SweepOff
    /\ configFile = PlainConfig
    /\ \E out \in OutputTexts(MaxPieces) \cup {NominalStdout},
          err \in {<<>>, CrashStderr} :
          proc = [stdout |-> out, stderr |-> err, returncode |-> Some(0)]
    /\ probe = [mode |-> "scrape", scraped |-> FALSE,
                execution_time |-> None, memory_used |-> None]

\* one execution of lines 65-74 on the captured streams
ScrapeOutput ==
    /\ probe.mode = "scrape"
    /\ ~probe.scraped
    /\ probe' = [probe EXCEPT !.scraped = TRUE,
                              !.execution_time = ScrapeTime(proc),
                              !.memory_used = ScrapeMemory(proc)]
    /\ UNCHANGED sweepVars

SpecScrape == ScrapeInit /\ [][ScrapeOutput]_vars

\* ========================================================================
\* Properties
\* ========================================================================

\* ---- vocabulary of the properties --------------------------------------
\* the key of a line of a .properties file: none for a comment or a blank
\* line, otherwise the characters up to the first separator or blank
KeyEnd == {"=", ":", " ", "\t", "\n"}

RECURSIVE TakeKey(_)
TakeKey(s) ==
    IF s = <<>> \/ s[1] \in KeyEnd THEN <<>> ELSE <<s[1]>> \o TakeKey(Tail(s))

LineKey(line) ==
    LET t == LStrip(line)
    IN  IF t # <<>> /\ t[1] \in {"#", "!"} THEN <<>> ELSE TakeKey(t)

RecognizedKeys == {Chars("operation"), Chars("querySize"), Chars("datastructures.type")}

\* the line the rewrite is to put in place of a line of a recognized key
Replacement(key, op, query_size, ds_type) ==
    IF key = Chars("operation") THEN Line("operation", Chars(op))
    ELSE IF key = Chars("querySize") THEN Line("querySize", FormatInt(query_size))
    ELSE Line("datastructures.type", Chars(ds_type))

\* decimal value of a run of digits, most significant digit first
RECURSIVE Horner(_, _)
Horner(acc, ds) ==
    IF ds = <<>> THEN acc ELSE Horner(acc * 10 + DigitValue(ds[1]), Tail(ds))

\* text holds, from position i on, label, then len digits, then unit
OccursAt(text, i, len, label, unit) ==
    LET j == i + Len(label)
        k == j + len
    IN  /\ k + Len(unit) - 1 <= Len(text)
        /\ SubSeq(text, i, j - 1) = label
        /\ \A x \in j..(k - 1) : IsDigit(text[x])
        /\ SubSeq(text, k, k + Len(unit) - 1) = unit

\* the integer of the first occurrence of `label <integer> unit` in text
FirstOccurrence(text, label, unit) ==
    LET starts == {i \in 1..Len(text) : i + Len(label) - 1 <= Len(text)
                                         /\ SubSeq(text, i, i + Len(label) - 1) = label}
        occ == {o \in starts \X (1..Len(text)) :
                   OccursAt(text, o[1], o[2], label, unit)}
    IN  IF occ = {}
        THEN None
        ELSE LET o == CHOOSE a \in occ : \A b \in occ : a[1] <= b[1]
             IN  Some(Horner(0, SubSeq(text, o[1] + Len(label),
                                       o[1] + Len(label) + o[2] - 1)))

FirstTime(text) == FirstOccurrence(text, Chars("Execution time: "), Chars(" ms"))

FirstMemory(text) == FirstOccurrence(text, Chars("Memory used: "), Chars(" MB"))

\* ---- C4 ----------------------------------------------------------------
\* C4 (as stated): one rewrite keeps the number and order of the lines, copies
\* verbatim every line whose key is not exactly one of the three recognized
\* keys (a key that merely begins with a recognized key name included), and
\* replaces only the lines of a recognized key.
C4_OnlyRecognizedKeysReplaced ==
    (probe.mode = "rewrite" /\ probe.applied = 1) =>
        LET before == ReadLines(probe.original)
            after  == ReadLines(configFile)
        IN  /\ Len(after) = Len(before)
            /\ \A i \in 1..Len(before) :
                  IF LineKey(before[i]) \in RecognizedKeys
                  THEN after[i] = Replacement(LineKey(before[i]), probe.op,
                                              probe.query_size, probe.ds_type)
                  ELSE after[i] = before[i]

\* ---- C5 ----------------------------------------------------------------
\* C5: applying the rewrite a second time with the same settings leaves the
\* file exactly as the first application left it; the file keeps its number
\* of lines, and every line that is not a line of a recognized key after the
\* rewrites is the line that was at that place in the input (no such line is
\* moved or duplicated).
C5_RewriteIdempotent ==
    (probe.mode = "rewrite" /\ probe.applied >= 2) =>
        LET before == ReadLines(probe.original)
            after  == ReadLines(configFile)
        IN  /\ configFile = probe.previous
            /\ Len(after) = Len(before)
            /\ \A i \in 1..Len(after) :
                  LineKey(after[i]) \notin RecognizedKeys => after[i] = before[i]

\* a file with two lines, changed by the rewrite, after the second application
C5_Witness ==
    /\ probe.mode = "rewrite"
    /\ probe.applied = 2
    /\ configFile # probe.original
    /\ Len(ReadLines(configFile)) = 2
    /\ \E i \in 1..2 : LineKey(ReadLines(configFile)[i]) \notin RecognizedKeys

\* ---- C6 ----------------------------------------------------------------
\* C6: the scraped execution time is the integer of the first occurrence of
\* `Execution time: <integer> ms` in the standard output, the scraped memory
\* the integer of the first occurrence of `Memory used: <integer> MB`, each
\* whatever else the output holds and whatever standard error holds; the
\* output `Execution time: 1234 ms\nMemory used: 56 MB\n` gives 1234 and 56.
C6_ScrapeFirstOccurrence ==
    (probe.mode = "scrape" /\ probe.scraped) =>
        /\ probe.execution_time = FirstTime(proc.stdout)
        /\ probe.memory_used = FirstMemory(proc.stdout)
        /\ proc.stdout = NominalStdout =>
              probe.execution_time = Some(1234) /\ probe.memory_used = Some(56)

\* the nominal output scraped while standard error holds other figures
C6_Witness ==
    /\ probe.mode = "scrape"
    /\ probe.scraped
    /\ proc.stdout = NominalStdout
    /\ proc.stderr = CrashStderr
    /\ probe.execution_time = Some(1234)
    /\ probe.memory_used = Some(56)

\* ---- vocabulary of the sweep properties ---------------------------------
ExpectedQuerySizes == {1000000 + 100000 * k : k \in 0..10}

StructOrder == <<"ConcurrentSkipList", "BloomFiler", "CuckooFiler">>

OpOrder == <<"insert", "search", "delete">>

IndexIn(seq, x) == CHOOSE i \in 1..Len(seq) : seq[i] = x

\* a sweep point as <<querySize, rank of the structure, rank of the operation>>
PointOf(r) ==
    <<r.querySize, IndexIn(StructOrder, r.datastructures_type), IndexIn(OpOrder, r.operation)>>

\* the Bloom filter structure, under the name the program gives it
IsBloomDelete(r) == r.datastructures_type = StructOrder[2] /\ r.operation = OpOrder[3]

ExpectedPoints ==
    {<<q, d, o>> : q \in ExpectedQuerySizes, d \in 1..3, o \in 1..3}
        \ {<<q, 2, 3>> : q \in ExpectedQuerySizes}

LexLess(a, b) ==
    \/ a[1] < b[1]
    \/ a[1] = b[1] /\ a[2] < b[2]
    \/ a[1] = b[1] /\ a[2] = b[2] /\ a[3] < b[3]

\* the sweep point written in an object of output.json
FilePoint(obj) ==
    << Horner(0, obj[1][2]),
       CHOOSE d \in 1..3 : obj[3][2] = <<"\"">> \o Chars(StructOrder[d]) \o <<"\"">>,
       CHOOSE o \in 1..3 : obj[2][2] = <<"\"">> \o Chars(OpOrder[o]) \o <<"\"">> >>

Occurrences(seq, pt) == Cardinality({i \in 1..Len(seq) : PointOf(seq[i]) = pt})

\* ---- C1 ----------------------------------------------------------------
\* C1: when the sweep has run to completion the report holds exactly 88
\* records, their querySize values are the 11 values 1,000,000 .. 2,000,000
\* in steps of 100,000, and exactly 8 records carry each of these values.
C1_CompleteSweepHas88Records ==
    pc = "done" =>
        /\ Len(results) = 88
        /\ Len(outputFile) = 88
        /\ Cardinality(ExpectedQuerySizes) = 11
        /\ {results[i].querySize : i \in 1..Len(results)} = ExpectedQuerySizes
        /\ \A q \in ExpectedQuerySizes :
              /\ Cardinality({i \in 1..Len(results) : results[i].querySize = q}) = 8
              /\ Cardinality({i \in 1..Len(outputFile) :
                                 outputFile[i][1][2] = FormatInt(q)}) = 8

\* the sweep is complete and its last record carries the last query size
C1_Witness ==
    /\ pc = "done"
    /\ results # <<>>
    /\ results[Len(results)].querySize = 2000000

\* ---- C2 ----------------------------------------------------------------
\* C2: no record pairs the Bloom filter structure with delete, that
\* combination is never the subject of a configuration rewrite or of a worker
\* invocation, and once the sweep is complete every other combination of the
\* declared structures and operations has exactly one record and exactly one
\* invocation.
C2_NoBloomDeleteIn(seq) == \A i \in 1..Len(seq) : ~IsBloomDelete(seq[i])

\* a history either stays as it is or gains one element at its end, which is
\* not the skipped combination
C2_GrowsWithoutBloomDelete(old, new) ==
    \/ new = old
    \/ /\ Len(new) = Len(old) + 1
       /\ SubSeq(new, 1, Len(old)) = old
       /\ ~IsBloomDelete(new[Len(new)])

C2_Start ==
    C2_NoBloomDeleteIn(results) /\ C2_NoBloomDeleteIn(rewrites) /\ C2_NoBloomDeleteIn(invocations)

C2_Step ==
    /\ C2_GrowsWithoutBloomDelete(results, results')
    /\ C2_GrowsWithoutBloomDelete(rewrites, rewrites')
    /\ C2_GrowsWithoutBloomDelete(invocations, invocations')

C2_AtEnd ==
    pc = "done" =>
        /\ C2_Start
        /\ \A pt \in ExpectedPoints :
              Occurrences(results, pt) = 1 /\ Occurrences(invocations, pt) = 1

C2_BloomDeleteNeverRun == C2_Start /\ [][C2_Step]_vars /\ [](C2_AtEnd)

\* the loop has passed the first skipped combination and run the next one
C2_Witness ==
    /\ Len(results) >= 6
    /\ PointOf(results[5]) = <<1000000, 2, 2>>
    /\ PointOf(results[6]) = <<1000000, 3, 1>>

\* ---- C3 ----------------------------------------------------------------
\* C3: the records of the report are in enumeration order at every moment
\* (querySize ascending, then structure in declared order, then operation in
\* declared order), the written report keeps that order, and its length is
\* the number of non-skipped combinations.
C3_Ordered(seq) ==
    \A i \in 1..(Len(seq) - 1) : LexLess(PointOf(seq[i]), PointOf(seq[i + 1]))

\* the list stays as it is or gains, at its end, a record of a later point
C3_Step ==
    \/ results' = results
    \/ /\ Len(results') = Len(results) + 1
       /\ SubSeq(results', 1, Len(results)) = results
       /\ results # <<>> =>
             LexLess(PointOf(results[Len(results)]), PointOf(results'[Len(results')]))

C3_AtEnd ==
    pc = "done" =>
        LET inList == [i \in 1..Len(results) |-> PointOf(results[i])]
            inFile == [i \in 1..Len(outputFile) |-> FilePoint(outputFile[i])]
        IN  /\ Len(results) = Cardinality(ExpectedPoints)
            /\ inFile = inList
            /\ \A i \in 1..Len(inFile), j \in 1..Len(inFile) :
                  i < j => LexLess(inFile[i], inFile[j])

C3_ReportInEnumerationOrder == C3_Ordered(results) /\ [][C3_Step]_vars /\ [](C3_AtEnd)

\* the written report, whose second query size starts at its ninth record
C3_Witness ==
    /\ pc = "done"
    /\ Len(outputFile) > 9
    /\ FilePoint(outputFile[8]) = <<1000000, 3, 3>>
    /\ FilePoint(outputFile[9]) = <<1100000, 1, 1>>

\* ---- C7 ----------------------------------------------------------------
\* C7: the record appended for an invocation has both measurements null when
\* standard output was empty, and has only the missing one null when one of
\* the two patterns is absent; whatever was captured, the step after the
\* worker's exit appends the record of that sweep point and goes on with the
\* loop, it never halts.
C7_RecordAfterCollect ==
    (pc = "loop" /\ results # <<>>) =>
        LET r   == results[Len(results)]
            out == proc.stdout
        IN  /\ out = <<>> => r.execution_time_ms = None /\ r.memory_used_mb = None
            /\ FirstTime(out) = None =>
                  r.execution_time_ms = None /\ r.memory_used_mb = FirstMemory(out)
            /\ FirstMemory(out) = None =>
                  r.memory_used_mb = None /\ r.execution_time_ms = FirstTime(out)

C7_StepAfterExit ==
    (pc = "waiting" /\ Len(invocations) \notin live) =>
        /\ pc' = "loop"
        /\ Len(results') = Len(results) + 1
        /\ SubSeq(results', 1, Len(results)) = results
        /\ PointOf(results'[Len(results')]) = PointOf(invocations[Len(invocations)])
        /\ fault' = "none"

C7_MissingMeasurementIsNull == [](C7_RecordAfterCollect) /\ [][C7_StepAfterExit]_vars

\* a complete sweep one of whose records, not the last, has the time but no
\* memory figure
C7_Witness ==
    /\ pc = "done"
    /\ \E i \in 1..(Len(results) - 1) :
          /\ results[i].memory_used_mb = None
          /\ results[i].execution_time_ms = Some(7)

\* ---- C9 ----------------------------------------------------------------
\* C9: output.json is written once, and only after every non-skipped
\* combination has its record; until then it is as the sweep found it, so a
\* sweep that halts early leaves it untouched; the list of records only grows
\* at its end.
C9_OutputState ==
    /\ outputWrites <= 1
    /\ pc = "done" =>
          /\ outputWrites = 1
          /\ Len(results) = Cardinality(ExpectedPoints)
          /\ Len(outputFile) = Len(results)
          /\ \A i \in 1..Len(results) : FilePoint(outputFile[i]) = PointOf(results[i])
    /\ (pc # "done" /\ fault \notin {"output_write"}) =>
          outputFile = StaleOutput /\ outputWrites = 0

C9_OutputStep ==
    /\ Len(results') >= Len(results)
    /\ SubSeq(results', 1, Len(results)) = results
    /\ (outputFile' # outputFile \/ outputWrites' # outputWrites) =>
          /\ Len(results) = Cardinality(ExpectedPoints)
          /\ results' = results

C9_ReportWrittenOnceAtEnd == [](C9_OutputState) /\ [][C9_OutputStep]_vars

\* a sweep halted by a fault on config.properties after some records
C9_Witness ==
    /\ pc = "halted"
    /\ fault \in {"config_read", "config_write"}
    /\ Len(results) > 0
    /\ outputFile = StaleOutput

\* ---- C8 ----------------------------------------------------------------
\* what a reader of .properties files finds for a key in the lines of a file:
\* the text after the key and its separator on the last line of that key,
\* without the line end
RStripEnd(s) == IF s # <<>> /\ s[Len(s)] = "\n" THEN SubSeq(s, 1, Len(s) - 1) ELSE s

LinesOfKey(lines, key) == {i \in 1..Len(lines) : LineKey(lines[i]) = Chars(key)}

PropertyValue(lines, key) ==
    LET at    == LinesOfKey(lines, key)
        last  == CHOOSE i \in at : \A j \in at : j <= i
        t     == LStrip(lines[last])
        rest  == LStrip(SubSeq(t, Len(Chars(key)) + 1, Len(t)))
        value == IF rest # <<>> /\ rest[1] \in {"=", ":"} THEN LStrip(Tail(rest)) ELSE rest
    IN  RStripEnd(value)

HasAllKeys(lines) ==
    \A key \in {"operation", "querySize", "datastructures.type"} : LinesOfKey(lines, key) # {}

\* the lines hold the values of the sweep point pt
ReadsPoint(lines, pt) ==
    /\ PropertyValue(lines, "operation") = Chars(pt.operation)
    /\ PropertyValue(lines, "datastructures.type") = Chars(pt.datastructures_type)
    /\ LET digits == PropertyValue(lines, "querySize")
       IN  /\ digits # <<>>
           /\ \A i \in 1..Len(digits) : IsDigit(digits[i])
           /\ Horner(0, digits) = pt.querySize

\* C8: every worker invocation follows exactly one configuration rewrite, made
\* for the same sweep point; at most one worker is alive at any time; the
\* configuration file does not change while a worker is alive; so, when the
\* file has a line for each recognized key, the operation, querySize and
\* datastructures.type a worker reads are those of the record appended for
\* its invocation.
C8_State ==
    /\ Cardinality(live) <= 1
    /\ Len(rewrites) - Len(invocations) \in {0, 1}
    /\ pc = "waiting" => Len(rewrites) = Len(invocations)
    /\ workerSaw.read =>
          LET lines == ReadLines(workerSaw.text)
          IN  HasAllKeys(lines) =>
                 /\ ReadsPoint(lines, invocations[Len(invocations)])
                 /\ Len(results) = Len(invocations) =>
                       LET r == results[Len(results)]
                       IN  invocations[Len(invocations)] =
                              [querySize |-> r.querySize, operation |-> r.operation,
                               datastructures_type |-> r.datastructures_type]

C8_Step ==
    /\ live # {} => configFile' = configFile
    /\ rewrites' # rewrites =>
          /\ live = {}
          /\ Len(rewrites) = Len(invocations)
          /\ Len(rewrites') = Len(rewrites) + 1
          /\ invocations' = invocations
    /\ invocations' # invocations =>
          /\ live = {}
          /\ rewrites' = rewrites
          /\ Len(rewrites) = Len(invocations) + 1
          /\ invocations' = Append(invocations, rewrites[Len(rewrites)])
    /\ Len(results') > Len(results) =>
          PointOf(results'[Len(results')]) = PointOf(invocations[Len(invocations)])

C8_OneRewritePerInvocation == [](C8_State) /\ [][C8_Step]_vars

\* the record of the second invocation has been appended and its worker had
\* read the configuration
C8_Witness ==
    /\ pc = "loop"
    /\ Len(results) = 2
    /\ Len(invocations) = 2
    /\ workerSaw.read
    /\ HasAllKeys(ReadLines(workerSaw.text))
    /\ PropertyValue(ReadLines(workerSaw.text), "operation") = Chars("search")
    /\ results[2].operation = "search"

\* ---- C10 ---------------------------------------------------------------
\* C10 (as stated): after every worker invocation, whatever the worker does
\* (a hang included), the sweep goes on with the next combination, and it
\* ends at Done with the report written unless a fault of its own halts it.
C10_SweepAlwaysCompletes ==
    /\ [](pc = "waiting" => <>(pc = "loop"))
    /\ <>(pc = "done" \/ pc = "halted")

====
